---- MODULE Spec2Model ----
(***************************************************************************)
(* Read-only pricing queries of the pool manager                           *)
(* (contracts/pool-manager/src/queries.rs): asset decimals, single swap    *)
(* simulation, reverse simulation, pool listing and the two multi-hop      *)
(* compositions.  Every query is a pure function of the stored pools and   *)
(* its arguments; the state records the registry snapshot, the last query  *)
(* made and what it returned.                                              *)
(*                                                                         *)
(* Amounts are naturals.  The widths of Uint128/Uint256 and the number of  *)
(* fractional digits of Decimal256 are scaled down (Uint128Max,            *)
(* Uint256Max, DecimalPlaces) so that every intermediate product fits the  *)
(* model checker's integers; the arithmetic keeps its shape: truncating    *)
(* division, checked operations that fail on overflow/underflow.           *)
(***************************************************************************)
EXTENDS Integers, Sequences, FiniteSets, TLC

VARIABLES POOLS, solver, call, ret, hops

vars == <<POOLS, solver, call, ret, hops>>

(* ------------------------------ bounds -------------------------------- *)

\* Longest pool identifier, in bytes.
MaxIdLen == 4
\* Fractional digits of the wide fixed-point type (18 in cosmwasm_std).
DecimalPlaces == 2
\* Largest value of the wide unsigned integer (2^256 - 1 in cosmwasm_std).
Uint256Max == 500000
\* Largest value of the native unsigned integer (2^128 - 1 in cosmwasm_std).
Uint128Max == 30000
\* Longest chain of swap operations.
MaxHops == 2

(* --------------------------- program constants ------------------------ *)

MAX_LIMIT == 100
DEFAULT_LIMIT == 10

(* ------------------------------ results ------------------------------- *)

None == [some |-> FALSE]
Some(v) == [some |-> TRUE, v |-> v]

Ok(v) == [ok |-> TRUE, val |-> v]
Err(e) == [ok |-> FALSE, err |-> e]

Min(a, b) == IF a < b THEN a ELSE b
Max(a, b) == IF a > b THEN a ELSE b

(* ------------------------- checked integer ops ------------------------ *)

\* Uint128::checked_sub
checked_sub(a, b) == IF a < b THEN Err("Overflow") ELSE Ok(a - b)
\* Uint128::checked_mul
checked_mul(a, b) == IF a * b > Uint128Max THEN Err("Overflow") ELSE Ok(a * b)
\* Uint128::checked_div
checked_div(a, b) == IF b = 0 THEN Err("DivideByZero") ELSE Ok(a \div b)
\* Uint128::saturating_sub
saturating_sub(a, b) == IF a < b THEN 0 ELSE a - b
\* Uint128::try_from(Uint256)
try_into_u128(a) == IF a > Uint128Max THEN Err("ConversionOverflow") ELSE Ok(a)

(* --------------------- Decimal256 (value = atomics) ------------------- *)

DECIMAL_FRACTIONAL == 10 ^ DecimalPlaces

\* Decimal256::one()
DecOne == DECIMAL_FRACTIONAL
\* Decimal::percent(p).to_decimal_256(): a fee rate of p per cent
Percent(p) == p * 10 ^ (DecimalPlaces - 2)
\* Decimal256::checked_sub
dec_checked_sub(a, b) == IF a < b THEN Err("Overflow") ELSE Ok(a - b)
\* Fraction::inv: None for zero, else 1/a truncated to the fractional digits
dec_inv(a) ==
    IF a = 0 THEN None
    ELSE Some((DECIMAL_FRACTIONAL * DECIMAL_FRACTIONAL) \div a)
\* Decimal256::checked_mul: truncating product, failing past the wide width
dec_checked_mul(a, b) ==
    IF (a * b) \div DECIMAL_FRACTIONAL > Uint256Max THEN Err("Overflow")
    ELSE Ok((a * b) \div DECIMAL_FRACTIONAL)

\* Decimal256Helper::decimal_with_precision: an integer amount with
\* `precision` decimals as a wide decimal.
decimal_with_precision(value, precision) ==
    IF precision > DecimalPlaces
    THEN Ok(value \div (10 ^ (precision - DecimalPlaces)))
    ELSE IF value * 10 ^ (DecimalPlaces - precision) > Uint256Max
         THEN Err("Failed to convert to Decimal256")
         ELSE Ok(value * 10 ^ (DecimalPlaces - precision))

\* Decimal256Helper::to_uint256_with_precision: back to an integer with
\* `precision` decimals, truncating.
to_uint256_with_precision(dec, precision) ==
    IF precision > DecimalPlaces THEN Err("Overflow")
    ELSE Ok(dec \div (10 ^ (DecimalPlaces - precision)))

\* Fee::compute: the rate applied to an integer amount, truncating.
fee_compute(rate, amount) == (amount * rate) \div DECIMAL_FRACTIONAL

(* --------------------------- pool registry ---------------------------- *)

\* Bytes a pool identifier is made of; 0 is the byte the range start appends.
IdBytes == {1, 2, 3}

IdsOfLen(k) == [1..k -> IdBytes]
IdsUpTo(n) == UNION {IdsOfLen(k) : k \in 1..n}

Denoms == {"uA", "uB", "uC"}

\* Fee schedules <<protocol, swap, burn>> in per cent, each summing below 1.
FeeSchedules ==
    << <<0, 0, 0>>, <<3, 5, 2>>, <<10, 20, 0>>,
       <<20, 30, 20>>, <<0, 30, 0>>, <<1, 0, 0>> >>

\* The same with the fee validation left out: the second and fifth reach
\* a combined rate of exactly 1, the last passes it.
UncheckedFeeSchedules ==
    << <<0, 0, 0>>, <<50, 30, 20>>, <<10, 20, 0>>,
       <<3, 5, 2>>, <<100, 0, 0>>, <<60, 30, 20>> >>

PoolFees(s) ==
    [protocol_fee |-> Percent(s[1]), swap_fee |-> Percent(s[2]),
     burn_fee |-> Percent(s[3])]

\* The pool stored under `id`: the first byte picks the pair and curve,
\* the following bytes the fee schedule, the decimals and the reserves.
PoolFixture(id, schedules) ==
    LET n == Len(id)
        b2 == IF n >= 2 THEN id[2] ELSE 1
        b3 == IF n >= 3 THEN id[3] ELSE 2
        b4 == IF n >= 4 THEN id[4] ELSE 2
        fees == PoolFees(schedules[IF n = 2 THEN 3 + b2 ELSE b2])
    IN  CASE id[1] = 1 ->
              [pool_identifier |-> id,
               asset_denoms |-> <<"uA", "uB">>,
               asset_decimals |-> <<1, 2>>,
               assets |-> <<100 * n, 250>>,
               pool_type |-> [kind |-> "ConstantProduct", amp |-> 0],
               pool_fees |-> fees,
               lp_denom |-> <<"lp", id>>]
          [] id[1] = 2 ->
              [pool_identifier |-> id,
               asset_denoms |-> <<"uB", "uC">>,
               asset_decimals |-> <<2, 0>>,
               assets |-> IF n = 2 /\ b2 = 3 THEN <<0, 0>> ELSE <<400, 90 * b2>>,
               pool_type |-> [kind |-> "ConstantProduct", amp |-> 0],
               pool_fees |-> fees,
               lp_denom |-> <<"lp", id>>]
          [] OTHER ->
              [pool_identifier |-> id,
               asset_denoms |-> <<"uC", "uA">>,
               asset_decimals |-> <<b3 - 1, b4 - 1>>,
               assets |-> <<50 * 10 ^ (b3 - 1), 60 * 10 ^ (b4 - 1)>>,
               pool_type |-> [kind |-> "StableSwap", amp |-> 100],
               pool_fees |-> fees,
               lp_denom |-> <<"lp", id>>]

\* Registry snapshots: every identifier up to a length, with or without
\* gaps in the key order.
RegistryIds(n, gaps) ==
    {id \in IdsUpTo(n) : ~(gaps /\ Len(id) >= 2 /\ id[Len(id)] = 2)}

Registries(schedules) ==
    {[id \in RegistryIds(n, FALSE) |-> PoolFixture(id, schedules)] :
        n \in 1..MaxIdLen}
    \cup {[id \in RegistryIds(MaxIdLen, TRUE) |-> PoolFixture(id, schedules)]}

\* Candidate invariant solvers, by their price offset (in tenths) from
\* the constant-sum solution.
Solvers == {-3, 0, 2}

\* get_pool_by_identifier / POOLS.load
get_pool_by_identifier(pools, id) ==
    IF id \in DOMAIN pools THEN Ok(pools[id]) ELSE Err("PoolNotFound")

(* ------------------------ query_asset_decimals ------------------------ *)

\* Iterator::position: index of the first element equal to x, if any
position(seq, x) ==
    IF \E i \in 1..Len(seq) : seq[i] = x
    THEN Some(CHOOSE i \in 1..Len(seq) :
                  seq[i] = x /\ \A j \in 1..(i - 1) : seq[j] # x)
    ELSE None

\* query_asset_decimals reading the decimals of the first asset whatever
\* the position found.
query_asset_decimals_first(pools, pool_identifier, denom) ==
    LET pool_info == get_pool_by_identifier(pools, pool_identifier)
    IN  IF ~pool_info.ok THEN pool_info
        ELSE LET decimal_index == position(pool_info.val.asset_denoms, denom)
             IN  IF ~decimal_index.some THEN Err("AssetMismatch")
                 ELSE Ok([pool_identifier |-> pool_identifier,
                          denom |-> denom,
                          decimals |-> pool_info.val.asset_decimals[1]])

query_asset_decimals(pools, pool_identifier, denom) ==
    LET pool_info == get_pool_by_identifier(pools, pool_identifier)
    IN  IF ~pool_info.ok THEN pool_info
        ELSE LET decimal_index == position(pool_info.val.asset_denoms, denom)
             IN  IF ~decimal_index.some THEN Err("AssetMismatch")
                 ELSE Ok([pool_identifier |-> pool_identifier,
                          denom |-> denom,
                          decimals |-> pool_info.val.asset_decimals[decimal_index.v]])

\* Identifiers the pricing queries are asked about.
QueryIds ==
    {id \in IdsUpTo(MaxIdLen) : Len(id) <= 2 \/ (Len(id) = 4 /\ id[1] = 3)}

QueryAssetDecimals ==
    /\ call.name = "none"
    /\ \E id \in QueryIds, denom \in Denoms :
        /\ call' = [name |-> "query_asset_decimals",
                    pool_identifier |-> id, denom |-> denom]
        /\ ret' = query_asset_decimals(POOLS, id, denom)
        /\ UNCHANGED <<POOLS, solver, hops>>

(* --------------------- helpers outside queries.rs --------------------- *)

\* helpers::get_asset_indexes_in_pool: the first denom resolves to the
\* offer side, the second to the ask side; either absent is AssetMismatch.
get_asset_indexes_in_pool(pool_info, offer_denom, ask_denom) ==
    LET oi == position(pool_info.asset_denoms, offer_denom)
        ai == position(pool_info.asset_denoms, ask_denom)
    IN  IF ~oi.some \/ ~ai.some THEN Err("AssetMismatch")
        ELSE Ok([offer_asset_in_pool |-> pool_info.assets[oi.v],
                 ask_asset_in_pool |-> pool_info.assets[ai.v],
                 offer_index |-> oi.v,
                 ask_index |-> ai.v,
                 offer_decimal |-> pool_info.asset_decimals[oi.v],
                 ask_decimal |-> pool_info.asset_decimals[ai.v]])

\* helpers::calculate_stableswap_y: the reserve that satisfies the stable
\* invariant after `amount` moves, at `precision` decimals.  The solver is
\* a dependency of the queries; it is one of a family of candidates around
\* the constant-sum solution, pricing the offer asset `slv` tenths below
\* (or, negative, above) the ask asset; none can empty the ask reserve.
calculate_stableswap_y(slv, n_coins, offer_pool, ask_pool, amount, amp, precision, direction) ==
    LET op == to_uint256_with_precision(offer_pool, precision)
        ap == to_uint256_with_precision(ask_pool, precision)
        am == to_uint256_with_precision(amount, precision)
    IN  IF ~op.ok THEN op
        ELSE IF ~ap.ok THEN ap
        ELSE IF ~am.ok THEN am
        ELSE IF direction = "Simulate"
        THEN LET y == ap.val - (am.val * 10) \div (10 + slv)
             IN  IF y <= 0 THEN Err("ConvergeError") ELSE try_into_u128(y)
        ELSE IF am.val >= ap.val THEN Err("ConvergeError")
        ELSE try_into_u128(op.val + (am.val * (10 + slv)) \div 10)

\* The three fee amounts on a base amount, and their sum.
FeesOn(pool_fees, base) ==
    [swap |-> fee_compute(pool_fees.swap_fee, base),
     protocol |-> fee_compute(pool_fees.protocol_fee, base),
     burn |-> fee_compute(pool_fees.burn_fee, base)]

\* The swap computation once the fee-free output is known: fees are
\* rate x output, the return amount is what is left.
SwapComputation(pool_fees, out) ==
    LET f == FeesOn(pool_fees, out)
        net == checked_sub(out, f.swap + f.protocol + f.burn)
    IN  IF ~net.ok THEN net
        ELSE Ok([return_amount |-> net.val,
                 spread_amount |->
                     saturating_sub(out - net.val, f.swap + f.protocol + f.burn),
                 swap_fee_amount |-> f.swap,
                 protocol_fee_amount |-> f.protocol,
                 burn_fee_amount |-> f.burn,
                 extra_fees_amount |-> 0])

\* helpers::compute_swap: forward pricing on either curve.
compute_swap(slv, n_coins, offer_pool, ask_pool, offer_amount, pool_fees, pool_type, offer_precision, ask_precision) ==
    IF pool_type.kind = "ConstantProduct"
    THEN IF offer_pool + offer_amount = 0 THEN Err("DivideByZero")
         ELSE SwapComputation(pool_fees,
                  (ask_pool * offer_amount) \div (offer_pool + offer_amount))
    ELSE LET ow == decimal_with_precision(offer_pool, offer_precision)
             aw == decimal_with_precision(ask_pool, ask_precision)
             xw == decimal_with_precision(offer_amount, offer_precision)
             max_precision == Max(offer_precision, ask_precision)
         IN  IF ~ow.ok THEN ow
             ELSE IF ~aw.ok THEN aw
             ELSE IF ~xw.ok THEN xw
             ELSE LET y == calculate_stableswap_y(slv, n_coins, ow.val, aw.val,
                               xw.val, pool_type.amp, max_precision, "Simulate")
                      cur == to_uint256_with_precision(aw.val, max_precision)
                  IN  IF ~y.ok THEN y
                      ELSE IF ~cur.ok THEN cur
                      ELSE LET out == checked_sub(cur.val, y.val)
                           IN  IF ~out.ok THEN out
                               ELSE SwapComputation(pool_fees,
                                        out.val \div
                                          (10 ^ (max_precision - ask_precision)))

\* helpers::compute_offer_amount: constant-product reverse pricing; the
\* forward formula inverted on the before-fee amount.
compute_offer_amount(offer_pool, ask_pool, ask_amount, pool_fees) ==
    LET total == pool_fees.swap_fee + pool_fees.protocol_fee + pool_fees.burn_fee
        one_minus == dec_checked_sub(DecOne, total)
    IN  IF ~one_minus.ok THEN one_minus
        ELSE LET inv == dec_inv(one_minus.val)
             IN  IF ~inv.some THEN Err("DivideByZero")
                 ELSE LET before_fee == (ask_amount * inv.v) \div DECIMAL_FRACTIONAL
                          f == FeesOn(pool_fees, before_fee)
                      IN  IF ask_pool <= before_fee THEN Err("Overflow")
                          ELSE IF offer_pool = 0 THEN Err("DivideByZero")
                          ELSE LET offer_amount ==
                                       ((offer_pool * ask_pool)
                                           \div (ask_pool - before_fee)) - offer_pool
                               IN  Ok([offer_amount |-> offer_amount,
                                       spread_amount |->
                                           saturating_sub(
                                               (offer_amount * ask_pool) \div offer_pool,
                                               before_fee),
                                       swap_fee_amount |-> f.swap,
                                       protocol_fee_amount |-> f.protocol,
                                       burn_fee_amount |-> f.burn])

(* --------------------------- query_simulation ------------------------- *)

query_simulation(pools, slv, offer_asset, ask_asset_denom, pool_identifier) ==
    LET pool_info == get_pool_by_identifier(pools, pool_identifier)
    IN  IF ~pool_info.ok THEN pool_info
        ELSE LET ix == get_asset_indexes_in_pool(pool_info.val,
                           offer_asset.denom, ask_asset_denom)
             IN  IF ~ix.ok THEN ix
                 ELSE compute_swap(slv, Len(pool_info.val.assets),
                          ix.val.offer_asset_in_pool, ix.val.ask_asset_in_pool,
                          offer_asset.amount, pool_info.val.pool_fees,
                          pool_info.val.pool_type,
                          ix.val.offer_decimal, ix.val.ask_decimal)

\* Amounts a query is asked about.
Amounts == {0, 1, 7, 33, 100, 2000}

\* Offer and ask denoms of a swap: two different assets.
DenomPairs == {p \in Denoms \X Denoms : p[1] # p[2]}

coin(amount, denom) == [amount |-> amount, denom |-> denom]

QuerySimulation ==
    /\ call.name = "none"
    /\ \E id \in QueryIds, pair \in DenomPairs, amount \in Amounts :
        LET offer == pair[1]
            ask == pair[2]
        IN
        /\ call' = [name |-> "query_simulation", pool_identifier |-> id,
                    offer_asset |-> coin(amount, offer), ask_asset_denom |-> ask]
        /\ ret' = query_simulation(POOLS, solver, coin(amount, offer), ask, id)
        /\ UNCHANGED <<POOLS, solver, hops>>

(* ----------------------- query_reverse_simulation -------------------- *)

\* The smaller of the two decimal counts taken for the larger.
MaxPrecisionMin(offer_decimal, ask_decimal) == Min(offer_decimal, ask_decimal)

\* max_precision = offer_decimal.max(ask_decimal)
MaxPrecision(offer_decimal, ask_decimal) == Max(offer_decimal, ask_decimal)

\* The fee inversion with the burn fee left out of the divisor.
FeeInversionNoBurn(pool_fees) ==
    LET s1 == dec_checked_sub(DecOne, pool_fees.protocol_fee)
        s2 == dec_checked_sub(s1.val, pool_fees.swap_fee)
    IN  IF ~s1.ok THEN s1
        ELSE IF ~s2.ok THEN s2
        ELSE LET inv == dec_inv(s2.val)
             IN  Ok(IF inv.some THEN inv.v ELSE DecOne)

\* The fee inversion failing on a zero divisor instead of defaulting.
FeeInversionStrict(pool_fees) ==
    LET s1 == dec_checked_sub(DecOne, pool_fees.protocol_fee)
        s2 == dec_checked_sub(s1.val, pool_fees.swap_fee)
        s3 == dec_checked_sub(s2.val, pool_fees.burn_fee)
    IN  IF ~s1.ok THEN s1
        ELSE IF ~s2.ok THEN s2
        ELSE IF ~s3.ok THEN s3
        ELSE LET inv == dec_inv(s3.val)
             IN  IF inv.some THEN Ok(inv.v) ELSE Err("DivideByZero")

\* The divisor of the fee inversion and its inverse: one minus the three
\* rates, inverted, with one standing in when there is no inverse.
FeeInversion(pool_fees) ==
    LET s1 == dec_checked_sub(DecOne, pool_fees.protocol_fee)
        s2 == dec_checked_sub(s1.val, pool_fees.swap_fee)
        s3 == dec_checked_sub(s2.val, pool_fees.burn_fee)
    IN  IF ~s1.ok THEN s1
        ELSE IF ~s2.ok THEN s2
        ELSE IF ~s3.ok THEN s3
        ELSE LET inv == dec_inv(s3.val)
             IN  Ok(IF inv.some THEN inv.v ELSE DecOne)

\* "convert into the original offer precision": the match on
\* max_precision.cmp(&offer_decimal).
RescaleToOffer(offer_amount, max_precision, offer_decimal) ==
    IF max_precision = offer_decimal
    THEN [branch |-> "Equal", res |-> Ok(offer_amount)]
    ELSE IF max_precision < offer_decimal
    THEN [branch |-> "Less",
          res |-> checked_mul(offer_amount, 10 ^ (offer_decimal - max_precision))]
    ELSE [branch |-> "Greater",
          res |-> checked_div(offer_amount, 10 ^ (max_precision - offer_decimal))]

\* The spread by plain subtraction.
SpreadAmountPlain(offer_amount, before_fees_offer) ==
    offer_amount - before_fees_offer

\* spread_amount = offer_amount.saturating_sub(before_fees_offer)
SpreadAmount(offer_amount, before_fees_offer) ==
    saturating_sub(offer_amount, before_fees_offer)

\* The fee amounts of the response, each rate on before_fees in ask
\* precision, each converted to the native width.
ReverseFees(pool_fees, before_fees_ask) ==
    LET swap == try_into_u128(fee_compute(pool_fees.swap_fee, before_fees_ask))
        protocol == try_into_u128(fee_compute(pool_fees.protocol_fee, before_fees_ask))
        burn == try_into_u128(fee_compute(pool_fees.burn_fee, before_fees_ask))
    IN  IF ~swap.ok THEN swap
        ELSE IF ~protocol.ok THEN protocol
        ELSE IF ~burn.ok THEN burn
        ELSE Ok([swap |-> swap.val, protocol |-> protocol.val, burn |-> burn.val])

\* The StableSwap arm.  The value returned carries, beside the response,
\* the locals of the computation (before_fees, max_precision, the solver's
\* answer, the branch of the rescaling).
StableReverse(slv, pool_info, ix, ask_amount) ==
    LET offer_decimal == ix.offer_decimal
        ask_decimal == ix.ask_decimal
        pool_fees == pool_info.pool_fees
        offer_pool == decimal_with_precision(ix.offer_asset_in_pool, offer_decimal)
        ask_pool == decimal_with_precision(ix.ask_asset_in_pool, ask_decimal)
        factor == FeeInversion(pool_fees)
        ask_wide == decimal_with_precision(ask_amount, ask_decimal)
    IN  IF ~offer_pool.ok THEN offer_pool
        ELSE IF ~ask_pool.ok THEN ask_pool
        ELSE IF ~factor.ok THEN factor
        ELSE IF ~ask_wide.ok THEN ask_wide
        ELSE
        LET before_fees == dec_checked_mul(factor.val, ask_wide.val)
        IN  IF ~before_fees.ok THEN before_fees
        ELSE
        LET before_fees_offer == to_uint256_with_precision(before_fees.val, offer_decimal)
            before_fees_ask == to_uint256_with_precision(before_fees.val, ask_decimal)
            max_precision == MaxPrecision(offer_decimal, ask_decimal)
        IN  IF ~before_fees_offer.ok THEN before_fees_offer
        ELSE IF ~before_fees_ask.ok THEN before_fees_ask
        ELSE
        LET new_offer_pool_amount ==
                calculate_stableswap_y(slv, Len(pool_info.assets), offer_pool.val,
                    ask_pool.val, before_fees.val, pool_info.pool_type.amp,
                    max_precision, "ReverseSimulate")
            cur256 == to_uint256_with_precision(offer_pool.val, max_precision)
        IN  IF ~new_offer_pool_amount.ok THEN new_offer_pool_amount
        ELSE IF ~cur256.ok THEN cur256
        ELSE
        LET cur == try_into_u128(cur256.val)
        IN  IF ~cur.ok THEN cur
        ELSE
        LET raw == checked_sub(new_offer_pool_amount.val, cur.val)
        IN  IF ~raw.ok THEN raw
        ELSE
        LET rescaled == RescaleToOffer(raw.val, max_precision, offer_decimal)
        IN  IF ~rescaled.res.ok THEN rescaled.res
        ELSE
        LET offer_amount == rescaled.res.val
            bfo == try_into_u128(before_fees_offer.val)
        IN  IF ~bfo.ok THEN bfo
        ELSE
        LET fees == ReverseFees(pool_fees, before_fees_ask.val)
        IN  IF ~fees.ok THEN fees
        ELSE Ok([offer_amount |-> offer_amount,
                 spread_amount |-> SpreadAmount(offer_amount, bfo.val),
                 swap_fee_amount |-> fees.val.swap,
                 protocol_fee_amount |-> fees.val.protocol,
                 burn_fee_amount |-> fees.val.burn,
                 locals |-> [arm |-> "StableSwap",
                             before_fees |-> before_fees.val,
                             before_fees_offer |-> before_fees_offer.val,
                             before_fees_ask |-> before_fees_ask.val,
                             max_precision |-> max_precision,
                             offer_decimal |-> offer_decimal,
                             ask_decimal |-> ask_decimal,
                             new_offer_pool_amount |-> new_offer_pool_amount.val,
                             raw_offer_amount |-> raw.val,
                             branch |-> rescaled.branch]])

query_reverse_simulation(pools, slv, ask_asset, offer_asset_denom, pool_identifier) ==
    LET pool_info == get_pool_by_identifier(pools, pool_identifier)
    IN  IF ~pool_info.ok THEN pool_info
        ELSE LET ix == get_asset_indexes_in_pool(pool_info.val,
                           offer_asset_denom, ask_asset.denom)
             IN  IF ~ix.ok THEN ix
                 ELSE IF pool_info.val.pool_type.kind = "ConstantProduct"
                 THEN LET c == compute_offer_amount(
                                   ix.val.offer_asset_in_pool,
                                   ix.val.ask_asset_in_pool,
                                   ask_asset.amount, pool_info.val.pool_fees)
                      IN  IF ~c.ok THEN c
                          ELSE Ok([offer_amount |-> c.val.offer_amount,
                                   spread_amount |-> c.val.spread_amount,
                                   swap_fee_amount |-> c.val.swap_fee_amount,
                                   protocol_fee_amount |-> c.val.protocol_fee_amount,
                                   burn_fee_amount |-> c.val.burn_fee_amount,
                                   locals |-> [arm |-> "ConstantProduct"]])
                 ELSE StableReverse(slv, pool_info.val, ix.val, ask_asset.amount)

QueryReverseSimulation ==
    /\ call.name = "none"
    /\ \E id \in QueryIds, pair \in DenomPairs, amount \in Amounts :
        LET offer == pair[1]
            ask == pair[2]
        IN
        /\ call' = [name |-> "query_reverse_simulation", pool_identifier |-> id,
                    ask_asset |-> coin(amount, ask), offer_asset_denom |-> offer]
        /\ ret' = query_reverse_simulation(POOLS, solver, coin(amount, ask), offer, id)
        /\ UNCHANGED <<POOLS, solver, hops>>

(* ------------------------------ get_pools ----------------------------- *)

\* Byte-wise lexicographic order of raw keys.
BytesLess(a, b) ==
    \E i \in 1..(Len(b)) :
        /\ \A j \in 1..(i - 1) : j <= Len(a) /\ a[j] = b[j]
        /\ (i > Len(a) \/ (i <= Len(a) /\ a[i] < b[i]))

RECURSIVE KeysBelow(_, _)
\* Every identifier extending `prefix` by at most `depth` bytes, in the
\* order the store iterates them (Order::Ascending).
KeysBelow(prefix, depth) ==
    IF depth = 0 THEN <<>>
    ELSE <<Append(prefix, 1)>> \o KeysBelow(Append(prefix, 1), depth - 1)
         \o <<Append(prefix, 2)>> \o KeysBelow(Append(prefix, 2), depth - 1)
         \o <<Append(prefix, 3)>> \o KeysBelow(Append(prefix, 3), depth - 1)

KeyOrder == KeysBelow(<<>>, MaxIdLen)

\* cw_utils::calc_range_start_string: the cursor with a zero byte appended
calc_range_start_string(start_after) ==
    IF start_after.some THEN Some(Append(start_after.v, 0)) ELSE None

\* POOLS.range(storage, Some(Bound::ExclusiveRaw(start)) | None, None, Ascending)
range(pools, start) ==
    SelectSeq(KeyOrder,
              LAMBDA k : k \in DOMAIN pools /\ (~start.some \/ BytesLess(start.v, k)))

\* Iterator::take
take(seq, n) == SubSeq(seq, 1, Min(n, Len(seq)))

\* The page size without the clamp to MAX_LIMIT.
PageSizeUnclamped(limit) == IF limit.some THEN limit.v ELSE DEFAULT_LIMIT

\* limit.unwrap_or(DEFAULT_LIMIT).min(MAX_LIMIT)
PageSize(limit) == Min(IF limit.some THEN limit.v ELSE DEFAULT_LIMIT, MAX_LIMIT)

\* deps.querier.query_supply: the supply of a pool's liquidity token.
query_supply(lp_denom) == 1000 * Len(lp_denom[2])

PoolInfoResponse(pool) ==
    [pool_info |-> pool, total_share |-> query_supply(pool.lp_denom)]

get_pool(pools, pool_identifier) ==
    IF pool_identifier \in DOMAIN pools
    THEN Ok(PoolInfoResponse(pools[pool_identifier]))
    ELSE Err("NotFound")

get_pools(pools, pool_identifier, start_after, limit) ==
    IF pool_identifier.some
    THEN LET one == get_pool(pools, pool_identifier.v)
         IN  IF ~one.ok THEN one ELSE Ok([pools |-> <<one.val>>])
    ELSE LET start == calc_range_start_string(start_after)
             page == take(range(pools, start), PageSize(limit))
         IN  Ok([pools |-> [i \in 1..Len(page) |-> PoolInfoResponse(pools[page[i]])]])

\* Cursors a caller may pass: any short byte string, zero bytes included.
Cursors ==
    {None} \cup {Some(c) : c \in UNION {[1..k -> IdBytes \cup {0}] : k \in 1..2}}

Limits == {None} \cup {Some(n) : n \in {0, 1, 3, 10, 11, 99, 100, 101, 250}}

GetPoolsArgs ==
    {[pool_identifier |-> None, start_after |-> c, limit |-> l] :
        c \in Cursors, l \in Limits}
    \cup {[pool_identifier |-> Some(id), start_after |-> None, limit |-> l] :
        id \in IdsUpTo(2), l \in {None, Some(1)}}

GetPools ==
    /\ call.name = "none"
    /\ \E a \in GetPoolsArgs :
        /\ call' = [name |-> "get_pools", pool_identifier |-> a.pool_identifier,
                    start_after |-> a.start_after, limit |-> a.limit]
        /\ ret' = get_pools(POOLS, a.pool_identifier, a.start_after, a.limit)
        /\ UNCHANGED <<POOLS, solver, hops>>

(* ---------------------- multi-hop compositions ------------------------ *)

MantraSwap(token_in_denom, token_out_denom, pool_identifier) ==
    [token_in_denom |-> token_in_denom, token_out_denom |-> token_out_denom,
     pool_identifier |-> pool_identifier]

\* One hop of simulate_swap_operations: the running amount, denominated in
\* the hop's input denom, through query_simulation.
ForwardHop(pools, slv, amount, operation) ==
    query_simulation(pools, slv, coin(amount, operation.token_in_denom),
                     operation.token_out_denom, operation.pool_identifier)

\* One hop of reverse_simulate_swap_operations: the running amount,
\* denominated in the hop's output denom, through query_simulation.
ReverseHop(pools, slv, amount, operation) ==
    query_simulation(pools, slv, coin(amount, operation.token_out_denom),
                     operation.token_in_denom, operation.pool_identifier)

RECURSIVE ForwardLoopStale(_, _, _, _, _, _)
\* The forward loop feeding every hop the amount the loop started with and
\* returning the last hop's output.
ForwardLoopStale(pools, slv, amount, operations, i, seen) ==
    IF i > Len(operations)
    THEN [res |-> Ok([amount |-> amount]), seen |-> seen]
    ELSE LET r == ForwardHop(pools, slv, amount, operations[i])
         IN  IF ~r.ok THEN [res |-> r, seen |-> Append(seen, i)]
             ELSE IF i = Len(operations)
             THEN [res |-> Ok([amount |-> r.val.return_amount]),
                   seen |-> Append(seen, i)]
             ELSE ForwardLoopStale(pools, slv, amount, operations,
                                   i + 1, Append(seen, i))

RECURSIVE ForwardLoop(_, _, _, _, _, _)
\* for operation in operations.into_iter(): `i` is the next operation,
\* `seen` the operations already handed to query_simulation.
ForwardLoop(pools, slv, amount, operations, i, seen) ==
    IF i > Len(operations)
    THEN [res |-> Ok([amount |-> amount]), seen |-> seen]
    ELSE LET r == ForwardHop(pools, slv, amount, operations[i])
         IN  IF ~r.ok THEN [res |-> r, seen |-> Append(seen, i)]
             ELSE ForwardLoop(pools, slv, r.val.return_amount, operations,
                              i + 1, Append(seen, i))

RECURSIVE ReverseLoopLenient(_, _, _, _, _, _)
\* The reverse loop skipping a hop that fails instead of returning its
\* error.
ReverseLoopLenient(pools, slv, amount, operations, i, seen) ==
    IF i < 1
    THEN [res |-> Ok([amount |-> amount]), seen |-> seen]
    ELSE LET r == ReverseHop(pools, slv, amount, operations[i])
         IN  ReverseLoopLenient(pools, slv,
                 IF r.ok THEN r.val.return_amount ELSE amount,
                 operations, i - 1, Append(seen, i))

RECURSIVE ReverseLoop(_, _, _, _, _, _)
\* for operation in operations.into_iter().rev()
ReverseLoop(pools, slv, amount, operations, i, seen) ==
    IF i < 1
    THEN [res |-> Ok([amount |-> amount]), seen |-> seen]
    ELSE LET r == ReverseHop(pools, slv, amount, operations[i])
         IN  IF ~r.ok THEN [res |-> r, seen |-> Append(seen, i)]
             ELSE ReverseLoop(pools, slv, r.val.return_amount, operations,
                              i - 1, Append(seen, i))

\* simulate_swap_operations with the emptiness check off by one.
simulate_swap_operations_gt1(pools, slv, offer_amount, operations) ==
    IF ~(Len(operations) > 1)
    THEN [res |-> Err("NoSwapOperationsProvided"), seen |-> <<>>]
    ELSE ForwardLoop(pools, slv, offer_amount, operations, 1, <<>>)

simulate_swap_operations(pools, slv, offer_amount, operations) ==
    IF ~(Len(operations) > 0)
    THEN [res |-> Err("NoSwapOperationsProvided"), seen |-> <<>>]
    ELSE ForwardLoop(pools, slv, offer_amount, operations, 1, <<>>)

reverse_simulate_swap_operations(pools, slv, ask_amount, operations) ==
    IF Len(operations) = 0
    THEN [res |-> Err("NoSwapOperationsProvided"), seen |-> <<>>]
    ELSE ReverseLoop(pools, slv, ask_amount, operations, Len(operations), <<>>)

\* Hops a chain is built from.
HopSet ==
    {MantraSwap("uA", "uB", <<1>>), MantraSwap("uB", "uC", <<2>>),
     MantraSwap("uC", "uA", <<3>>), MantraSwap("uB", "uA", <<1, 2>>),
     MantraSwap("uA", "uB", <<2>>), MantraSwap("uB", "uC", <<2, 3>>),
     MantraSwap("uA", "uC", <<3, 2, 1, 3>>), MantraSwap("uB", "uC", <<2, 2>>)}

Chains == UNION {[1..k -> HopSet] : k \in 0..MaxHops}

SimulateSwapOperations ==
    /\ call.name = "none"
    /\ \E operations \in Chains, amount \in Amounts :
        /\ call' = [name |-> "simulate_swap_operations",
                    offer_amount |-> amount, operations |-> operations]
        /\ LET r == simulate_swap_operations(POOLS, solver, amount, operations)
           IN  ret' = r.res /\ hops' = r.seen
        /\ UNCHANGED <<POOLS, solver>>

ReverseSimulateSwapOperations ==
    /\ call.name = "none"
    /\ \E operations \in Chains, amount \in Amounts :
        /\ call' = [name |-> "reverse_simulate_swap_operations",
                    ask_amount |-> amount, operations |-> operations]
        /\ LET r == reverse_simulate_swap_operations(POOLS, solver, amount, operations)
           IN  ret' = r.res /\ hops' = r.seen
        /\ UNCHANGED <<POOLS, solver>>

(* --------------------------- specification ---------------------------- *)

\* The state before a query: a registry whose pools passed the fee
\* validation, one of the candidate solvers, no query made yet.
Init ==
    /\ POOLS \in Registries(FeeSchedules)
    /\ solver \in Solvers
    /\ call = [name |-> "none"]
    /\ ret = [name |-> "none"]
    /\ hops = <<>>

Next ==
    \/ QueryAssetDecimals
    \/ QuerySimulation
    \/ QueryReverseSimulation
    \/ GetPools
    \/ SimulateSwapOperations
    \/ ReverseSimulateSwapOperations

Spec == Init /\ [][Next]_vars

\* The queries as functions of any stored pool: fee schedules that no
\* validation has bounded.
InitUnchecked ==
    /\ POOLS \in Registries(UncheckedFeeSchedules)
    /\ solver \in Solvers
    /\ call = [name |-> "none"]
    /\ ret = [name |-> "none"]
    /\ hops = <<>>

SpecUnchecked == InitUnchecked /\ [][Next]_vars

(* ------------------------------ properties ---------------------------- *)

IsForwardChain == call.name = "simulate_swap_operations"
IsReverseChain == call.name = "reverse_simulate_swap_operations"
IsChain == IsForwardChain \/ IsReverseChain

RECURSIVE RequiredInput(_, _, _, _)
\* The input the hops i, i+1, .. of a chain require to yield `ask`: the
\* last hop priced back first, each hop by reverse simulation.
RequiredInput(pools, slv, operations, ask) ==
    IF operations = <<>> THEN Ok(ask)
    ELSE LET rest == RequiredInput(pools, slv, Tail(operations), ask)
         IN  IF ~rest.ok THEN rest
             ELSE LET r == query_reverse_simulation(pools, slv,
                               coin(rest.val, Head(operations).token_out_denom),
                               Head(operations).token_in_denom,
                               Head(operations).pool_identifier)
                  IN  IF ~r.ok THEN r ELSE Ok(r.val.offer_amount)

\* C1: reverse_simulate_swap_operations on a non-empty chain returns the
\* amount of the first hop's input denom that the chain requires to yield
\* ask_amount: right to left, each hop replaces the running amount by the
\* input its pool requires (reverse simulation) for that amount of output.
C1_ReverseChainIsRequiredInput ==
    (IsReverseChain /\ Len(call.operations) > 0 /\ ret.ok) =>
        LET need == RequiredInput(POOLS, solver, call.operations, call.ask_amount)
        IN  need.ok /\ ret.val.amount = need.val

RECURSIVE ComposedForward(_, _, _, _, _)
\* The amount after the first k hops composed by hand: simulate_swap on
\* hop k, offered what the composition of the first k - 1 hops returned.
ComposedForward(pools, slv, offer_amount, operations, k) ==
    IF k = 0 THEN Ok(offer_amount)
    ELSE LET before == ComposedForward(pools, slv, offer_amount, operations, k - 1)
         IN  IF ~before.ok THEN before
             ELSE LET r == query_simulation(pools, slv,
                               coin(before.val, operations[k].token_in_denom),
                               operations[k].token_out_denom,
                               operations[k].pool_identifier)
                  IN  IF ~r.ok THEN r ELSE Ok(r.val.return_amount)

\* C2: simulate_swap_operations on a non-empty chain equals the manual
\* left-to-right composition of single swaps; for two hops A->B->C it is
\* simulate_swap(simulate_swap(amount, A->B).return_amount, B->C).return_amount.
C2_ChainIsManualComposition ==
    (IsForwardChain /\ Len(call.operations) > 0) =>
        LET ops == call.operations
            c == ComposedForward(POOLS, solver, call.offer_amount, ops, Len(ops))
        IN  /\ ret.ok = c.ok
            /\ ret.ok => ret.val.amount = c.val
            /\ (ret.ok /\ Len(ops) = 2) =>
                 LET first == query_simulation(POOLS, solver,
                                  coin(call.offer_amount, ops[1].token_in_denom),
                                  ops[1].token_out_denom, ops[1].pool_identifier)
                     second == query_simulation(POOLS, solver,
                                  coin(first.val.return_amount, ops[2].token_in_denom),
                                  ops[2].token_out_denom, ops[2].pool_identifier)
                 IN  first.ok /\ second.ok
                     /\ ret.val.amount = second.val.return_amount

\* A two-hop chain through two pools that both change the amount.
C2_Witness ==
    /\ IsForwardChain /\ Len(call.operations) = 2 /\ ret.ok
    /\ call.operations[1].pool_identifier # call.operations[2].pool_identifier
    /\ call.operations[1].token_out_denom = call.operations[2].token_in_denom
    /\ ret.val.amount > 0 /\ ret.val.amount # call.offer_amount
    /\ hops = <<1, 2>>

\* C3: both compositions fail with NoSwapOperationsProvided on an empty
\* operation list, whatever the amount and before any pool is looked up;
\* on a non-empty list neither returns that error.
C3_EmptyChainFails ==
    IsChain =>
        /\ Len(call.operations) = 0 =>
             (ret = Err("NoSwapOperationsProvided") /\ hops = <<>>)
        /\ Len(call.operations) > 0 =>
             (ret.ok \/ ret.err # "NoSwapOperationsProvided")

C3_Witness ==
    /\ IsReverseChain /\ call.operations = <<>> /\ call.ask_amount = 2000
    /\ ~ret.ok /\ ret.err = "NoSwapOperationsProvided"

\* The operations in visiting order: left to right, or right to left.
VisitOrder ==
    LET n == Len(call.operations)
    IN  IF IsForwardChain THEN [j \in 1..n |-> j] ELSE [j \in 1..n |-> n + 1 - j]

StartAmount == IF IsForwardChain THEN call.offer_amount ELSE call.ask_amount

HopOf(amount, operation) ==
    IF IsForwardChain THEN ForwardHop(POOLS, solver, amount, operation)
    ELSE ReverseHop(POOLS, solver, amount, operation)

RECURSIVE HopOutcome(_)
\* What the j-th hop visited returns, given that the hops before it
\* succeeded; "unreached" when one of them failed.
HopOutcome(j) ==
    LET before == IF j = 1 THEN Ok([return_amount |-> StartAmount])
                  ELSE HopOutcome(j - 1)
    IN  IF ~before.ok THEN Err("unreached")
        ELSE HopOf(before.val.return_amount, call.operations[VisitOrder[j]])

\* C4: in either composition the first failing hop aborts the chain: the
\* call returns that hop's error, no later hop is evaluated and no amount
\* is returned; an amount is returned only when every hop succeeded.
C4_FirstFailureAborts ==
    (IsChain /\ Len(call.operations) > 0) =>
        LET n == Len(call.operations)
            failed == {j \in 1..n : ~HopOutcome(j).ok /\ HopOutcome(j).err # "unreached"}
        IN  IF failed # {}
            THEN LET j == CHOOSE x \in failed : TRUE
                 IN  /\ Cardinality(failed) = 1
                     /\ ret = HopOutcome(j)
                     /\ ~ret.ok
                     /\ "val" \notin DOMAIN ret
                     /\ hops = SubSeq(VisitOrder, 1, j)
            ELSE /\ ret.ok
                 /\ ret.val = [amount |-> HopOutcome(n).val.return_amount]
                 /\ hops = VisitOrder

\* A two-hop forward chain whose first hop names a denom its pool lacks.
C4_Witness ==
    /\ IsForwardChain /\ Len(call.operations) = 2
    /\ ~ret.ok /\ ret.err = "AssetMismatch" /\ hops = <<1>>

\* A reverse chain stopped by an arithmetic error at the hop visited first.
C4_WitnessArithmetic ==
    /\ IsReverseChain /\ Len(call.operations) = 2
    /\ ~ret.ok /\ ret.err = "DivideByZero" /\ hops = <<2>>

\* C5: on an existing pool query_asset_decimals fails with AssetMismatch
\* exactly when the denom is not among the pool's asset denoms; otherwise
\* it returns (pool, denom, decimals) with the decimals stored at the
\* denom's position in the asset list.
C5_AssetDecimals ==
    (call.name = "query_asset_decimals" /\ call.pool_identifier \in DOMAIN POOLS) =>
        LET pool == POOLS[call.pool_identifier]
            present == \E i \in 1..Len(pool.asset_denoms) :
                           pool.asset_denoms[i] = call.denom
        IN  /\ (ret = Err("AssetMismatch")) <=> ~present
            /\ ret.ok <=> present
            /\ present =>
                 \E i \in 1..Len(pool.asset_denoms) :
                     /\ pool.asset_denoms[i] = call.denom
                     /\ ret.val = [pool_identifier |-> call.pool_identifier,
                                   denom |-> call.denom,
                                   decimals |-> pool.asset_decimals[i]]

\* The denom is the pool's second asset and the two decimals differ.
C5_Witness ==
    /\ call.name = "query_asset_decimals" /\ ret.ok
    /\ call.pool_identifier \in DOMAIN POOLS
    /\ POOLS[call.pool_identifier].asset_denoms[2] = call.denom
    /\ POOLS[call.pool_identifier].asset_decimals[1] # ret.val.decimals

\* C6: get_pools without a pool identifier returns pools in ascending order
\* of identifier, all strictly after the cursor when one is given,
\* contiguous in the registry from there, at most min(limit, 100) of them
\* with limit 10 when omitted.
C6_Pagination ==
    (call.name = "get_pools" /\ ~call.pool_identifier.some) =>
        /\ ret.ok
        /\ LET page == ret.val.pools
               n == Len(page)
               ids == [i \in 1..n |-> page[i].pool_info.pool_identifier]
               want == IF call.limit.some THEN call.limit.v ELSE 10
               size == IF want < 100 THEN want ELSE 100
               after(k) == ~call.start_after.some
                           \/ BytesLess(call.start_after.v, k)
               listed == {ids[i] : i \in 1..n}
           IN  /\ n <= size
               /\ n <= 100
               /\ \A i \in 1..n : ids[i] \in DOMAIN POOLS /\ after(ids[i])
                                  /\ page[i].pool_info = POOLS[ids[i]]
               /\ \A i \in 1..(n - 1) : BytesLess(ids[i], ids[i + 1])
               /\ \A k \in DOMAIN POOLS \ listed :
                      after(k) => (n = size /\ (n > 0 => BytesLess(ids[n], k)))

\* A page cut at 100 entries by a larger limit, after a cursor.
C6_Witness ==
    /\ call.name = "get_pools" /\ ~call.pool_identifier.some
    /\ call.start_after.some /\ call.limit = Some(250)
    /\ ret.ok /\ Len(ret.val.pools) = 100
    /\ \E k \in DOMAIN POOLS : ~BytesLess(call.start_after.v, k)

\* The last query was a reverse simulation that reached the StableSwap arm:
\* the pool exists, is a stable pool and holds both denoms.
StableReverseCall ==
    /\ call.name = "query_reverse_simulation"
    /\ call.pool_identifier \in DOMAIN POOLS
    /\ POOLS[call.pool_identifier].pool_type.kind = "StableSwap"
    /\ call.offer_asset_denom \in
           {POOLS[call.pool_identifier].asset_denoms[i] : i \in 1..2}
    /\ call.ask_asset.denom \in
           {POOLS[call.pool_identifier].asset_denoms[i] : i \in 1..2}

CallFees == POOLS[call.pool_identifier].pool_fees
\* The combined rate f, and 1 - f, in units of the wide decimal.
CombinedFee == CallFees.swap_fee + CallFees.protocol_fee + CallFees.burn_fee
OneMinusFee == DECIMAL_FRACTIONAL - CombinedFee
\* The fee amounts reported, summed.
ReportedFees ==
    ret.val.swap_fee_amount + ret.val.protocol_fee_amount + ret.val.burn_fee_amount
\* (before_fees - X) - (swap + protocol + burn), in ask units.
FeeGap == (ret.val.locals.before_fees_ask - call.ask_asset.amount) - ReportedFees

\* C7: for a stable pool with combined rate f < 1, reverse-simulating X
\* yields before_fees = X / (1 - f), and the three fee amounts sum to
\* before_fees - X, each within the integer truncations made on the way
\* (less than one smallest unit each: three up to before_fees, three more
\* for the fees).
C7_FeesSumWithinTruncation ==
    (StableReverseCall /\ ret.ok /\ CombinedFee < DECIMAL_FRACTIONAL) =>
        LET X == call.ask_asset.amount
            bfa == ret.val.locals.before_fees_ask
        IN  /\ bfa * OneMinusFee <= X * DECIMAL_FRACTIONAL
            /\ X * DECIMAL_FRACTIONAL < (bfa + 3) * OneMinusFee
            /\ FeeGap > -6 /\ FeeGap < 6

\* C7 as amended: before_fees is X times the inverse of 1 - f truncated to
\* the wide decimal's fractional digits, so in ask units it is at most
\* X / (1 - f) and short of it by less than X / 10^digits + 2; the fee
\* amounts sum to S with
\*     -(1 - f) * (X / 10^digits + 2) < (before_fees - X) - S < 3.
C7_FeesSumWithinScaledTruncation ==
    (StableReverseCall /\ ret.ok /\ CombinedFee < DECIMAL_FRACTIONAL) =>
        LET X == call.ask_asset.amount
            bfa == ret.val.locals.before_fees_ask
            F == DECIMAL_FRACTIONAL
        IN  /\ bfa * OneMinusFee <= X * F
            /\ (X * F - bfa * OneMinusFee) * F < OneMinusFee * (X + 2 * F)
            /\ FeeGap < 3
            /\ FeeGap * F * F > -(OneMinusFee * (X + 2 * F))
            /\ X < F => (FeeGap > -3 /\ X * F < (bfa + 3) * OneMinusFee)

\* An amount past the wide decimal's scale, where the fees reported exceed
\* before_fees - X by six units or more.
C7_Witness ==
    /\ StableReverseCall /\ ret.ok
    /\ CombinedFee > 0 /\ CombinedFee < DECIMAL_FRACTIONAL
    /\ call.ask_asset.amount >= DECIMAL_FRACTIONAL
    /\ ReportedFees > 0
    /\ FeeGap <= -6

\* C8: in the stable arm, a combined rate of exactly 1 does not fail with
\* a division by zero: the inverse defaults to one, before_fees is the ask
\* amount itself and the computation goes on to the solver.
C8_ZeroDivisorDefaultsToOne ==
    (StableReverseCall /\ CombinedFee = DECIMAL_FRACTIONAL) =>
        /\ ret.ok \/ ret.err # "DivideByZero"
        /\ ret.ok =>
             /\ ret.val.locals.before_fees =
                    call.ask_asset.amount
                        * 10 ^ (DecimalPlaces - ret.val.locals.ask_decimal)
             /\ ret.val.locals.before_fees_ask = call.ask_asset.amount
             /\ ret.val.locals.new_offer_pool_amount >= 0

C8_Witness ==
    /\ StableReverseCall /\ CombinedFee = DECIMAL_FRACTIONAL
    /\ call.ask_asset.amount = 33
    /\ ret.ok /\ ret.val.locals.before_fees_ask = 33
    /\ ret.val.offer_amount > 0

\* C9: in the stable arm the spread reported is max(0, offer_amount -
\* before_fees_offer), before_fees_offer being before_fees in the offer
\* asset's precision: zero, not negative and not an error, when
\* offer_amount is the smaller.
C9_SpreadSaturates ==
    (StableReverseCall /\ ret.ok) =>
        LET l == ret.val.locals
            bfo == l.before_fees \div (10 ^ (DecimalPlaces - l.offer_decimal))
        IN  /\ l.before_fees_offer = bfo
            /\ ret.val.spread_amount >= 0
            /\ ret.val.offer_amount >= bfo =>
                 ret.val.spread_amount = ret.val.offer_amount - bfo
            /\ ret.val.offer_amount < bfo => ret.val.spread_amount = 0

\* The offer amount is below before_fees_offer and the query succeeds.
C9_Witness ==
    /\ StableReverseCall /\ ret.ok
    /\ ret.val.offer_amount > 0
    /\ ret.val.offer_amount < ret.val.locals.before_fees_offer
    /\ ret.val.spread_amount = 0

\* C10: in the stable arm max_precision >= offer_decimals, so the multiply
\* branch is never taken: the offer amount (new offer reserve minus the
\* current one at max_precision) is returned unchanged when the two are
\* equal and otherwise divided, truncating, by
\* 10^(max_precision - offer_decimals).
C10_NeverMultiplies ==
    (StableReverseCall /\ ret.ok) =>
        LET l == ret.val.locals
            pool == POOLS[call.pool_identifier]
            oi == CHOOSE i \in 1..2 : pool.asset_denoms[i] = call.offer_asset_denom
            ai == CHOOSE i \in 1..2 : pool.asset_denoms[i] = call.ask_asset.denom
            od == pool.asset_decimals[oi]
            ad == pool.asset_decimals[ai]
            mp == IF od >= ad THEN od ELSE ad
            raw == l.new_offer_pool_amount - pool.assets[oi] * 10 ^ (mp - od)
        IN  /\ l.max_precision = mp
            /\ l.max_precision >= od
            /\ l.branch # "Less"
            /\ mp = od => (l.branch = "Equal" /\ ret.val.offer_amount = raw)
            /\ mp > od => (l.branch = "Greater"
                           /\ ret.val.offer_amount = raw \div (10 ^ (mp - od)))

\* The divide branch, cutting a remainder off.
C10_Witness ==
    /\ StableReverseCall /\ ret.ok
    /\ ret.val.locals.branch = "Greater"
    /\ ret.val.locals.raw_offer_amount
         % (10 ^ (ret.val.locals.max_precision - ret.val.locals.offer_decimal)) # 0

\* The branch where nothing is rescaled.
C10_WitnessEqual ==
    /\ StableReverseCall /\ ret.ok
    /\ ret.val.locals.branch = "Equal" /\ ret.val.offer_amount > 0

====
